---- MODULE Spec2Model ----
(***************************************************************************)
(* Model of bot/services/parser.py (TextParser.parse_text and              *)
(* TextParser.generate_title), of the whitelist and business connection    *)
(* services and of the handlers of bot/handlers/callback_handler.py.       *)
(*                                                                         *)
(* A string is a sequence of characters; a character is a one-character    *)
(* TLA+ string.  Characters outside ASCII are written by their code point: *)
(* "U+2022" (bullet), "U+00B7" (middle dot), "U+0438" (Cyrillic small i,   *)
(* the word "and"), and so on for the Cyrillic letters of the titles.      *)
(***************************************************************************)
EXTENDS Integers, Sequences, FiniteSets, TLC

VARIABLES
    msg_text,    \* the text handed to parse_text
    pc,          \* "input" | "parsed" | "reparsed" | "title_input" | "titled"
                 \* | "whitelist" | "connections" | "workflow"
    parsed,      \* outcome of parse_text(msg_text)
    rejoined,    \* "\n".join(parsed.tasks)
    reparsed,    \* outcome of parse_text(rejoined)
    tasks,       \* the list handed to generate_title
    title,       \* generate_title(tasks)
    allowed_users,         \* rows of the table allowed_users
    whitelist_call,        \* the call of the whitelist service made by the
                           \* last step, with its result
    business_connections,  \* rows of the table business_connections
    pending_messages,      \* rows of the table pending_messages
    checklists,            \* rows of the table checklists
    task_rows,             \* rows of the table tasks
    sent_checklists,       \* the checklists Telegram has sent to the chat
    awaiting,              \* the handlers suspended at "await send_checklist"
    next_message_id,       \* the id the chat gives to its next message
    updates,               \* number of updates received
    last_event             \* what the last step handled: the kind of update,
                           \* its sender, the message a trigger reply answers

parser_vars == <<msg_text, parsed, rejoined, reparsed, tasks, title>>
db_vars ==
    <<allowed_users, whitelist_call, business_connections, pending_messages,
      checklists, task_rows, sent_checklists, awaiting, next_message_id,
      updates, last_event>>
vars ==
    <<msg_text, pc, parsed, rejoined, reparsed, tasks, title, allowed_users,
      whitelist_call, business_connections, pending_messages, checklists,
      task_rows, sent_checklists, awaiting, next_message_id, updates,
      last_event>>

(***************************************************************************)
(* Characters                                                              *)
(***************************************************************************)
NL == "\n"
BULLET == "U+2022"
MIDDOT == "U+00B7"
CYR_I == "U+0438"

\* str.strip() and the regex class \s
Whitespace == {" ", NL, "\t", "\r"}
\* the regex class \d
Digits == {"0", "1", "2", "3", "4", "5", "6", "7", "8", "9"}

IsSpace(c) == c \in Whitespace
IsDigit(c) == c \in Digits

Range(s) == {s[i] : i \in DOMAIN s}

(***************************************************************************)
(* str.strip(), str.split(sep), sep.join(list)                             *)
(***************************************************************************)
RECURSIVE LStrip(_)
LStrip(s) == IF s # <<>> /\ IsSpace(Head(s)) THEN LStrip(Tail(s)) ELSE s

RECURSIVE RStrip(_)
RStrip(s) ==
    IF s # <<>> /\ IsSpace(s[Len(s)]) THEN RStrip(SubSeq(s, 1, Len(s) - 1)) ELSE s

Strip(s) == RStrip(LStrip(s))

\* first index >= i holding character c, or Len(s) + 1
RECURSIVE IndexOf(_, _, _)
IndexOf(s, c, i) ==
    IF i > Len(s) \/ s[i] = c THEN i ELSE IndexOf(s, c, i + 1)

\* s.split(c): always at least one piece, empty pieces kept
RECURSIVE SplitFrom(_, _, _)
SplitFrom(s, c, i) ==
    LET k == IndexOf(s, c, i)
    IN  IF k > Len(s) THEN <<SubSeq(s, i, Len(s))>>
        ELSE <<SubSeq(s, i, k - 1)>> \o SplitFrom(s, c, k + 1)

Split(s, c) == SplitFrom(s, c, 1)

\* sep.join(list), sep a string
RECURSIVE Join(_, _)
Join(list, sep) ==
    IF list = <<>> THEN <<>>
    ELSE IF Len(list) = 1 THEN list[1]
    ELSE list[1] \o sep \o Join(Tail(list), sep)

\* [task.strip() for task in list if task.strip()]
RECURSIVE StripNonEmpty(_)
StripNonEmpty(list) ==
    IF list = <<>> THEN <<>>
    ELSE LET t == Strip(Head(list))
         IN  (IF t # <<>> THEN <<t>> ELSE <<>>) \o StripNonEmpty(Tail(list))

(***************************************************************************)
(* The line-anchored patterns, re.findall(pattern, text, re.MULTILINE)     *)
(***************************************************************************)
NoMatch == [ok |-> FALSE, state |-> <<>>, content |-> <<>>, next |-> 0]

\* \s* (greedy): the first index >= i that holds no whitespace
RECURSIVE SkipSpace(_, _)
SkipSpace(s, i) ==
    IF i <= Len(s) /\ IsSpace(s[i]) THEN SkipSpace(s, i + 1) ELSE i

\* \d* (greedy)
RECURSIVE SkipDigits(_, _)
SkipDigits(s, i) ==
    IF i <= Len(s) /\ IsDigit(s[i]) THEN SkipDigits(s, i + 1) ELSE i

\* The tail  \s*(.+?)(?:\n|$)  every pattern ends with, tried at index e.
\* \s also matches a newline, so the greedy \s* runs over line ends to the
\* next character that is no whitespace; (.+?) then takes the rest of that
\* line and the newline after it is consumed.  parse_text strips the text
\* first, so a whitespace run never reaches the end of the text and \s* has
\* nothing to give back.
ContentTail(s, e, state) ==
    LET m == SkipSpace(s, e)
        q == IndexOf(s, NL, m)
    IN  IF m > Len(s) THEN NoMatch
        ELSE [ok |-> TRUE, state |-> state,
              content |-> SubSeq(s, m, q - 1), next |-> q + 1]

\* ^\d+\.\s*(.+?)(?:\n|$)
NumberedAt(s, i) ==
    LET d == SkipDigits(s, i)
    IN  IF d > i /\ d <= Len(s) /\ s[d] = "." THEN ContentTail(s, d + 1, <<>>)
        ELSE NoMatch

\* ^[<marks>]\s*(.+?)(?:\n|$)
MarkAt(s, i, marks) ==
    IF s[i] \in marks THEN ContentTail(s, i + 1, <<>>) ELSE NoMatch

\* ^-\s*\[(.*?)\]\s*(.+?)(?:\n|$) : two groups, the checkbox state and the
\* content.  (.*?) is lazy and "." matches no newline, so the state ends at
\* the first "]" of the line; a later "]" is tried only when the tail fails,
\* which on stripped text means the first "]" ends the text.
RECURSIVE CloseBracket(_, _)
CloseBracket(s, i) ==
    IF i > Len(s) \/ s[i] = NL THEN 0
    ELSE IF s[i] = "]" THEN i
    ELSE CloseBracket(s, i + 1)

CheckboxAt(s, i) ==
    LET j == SkipSpace(s, i + 1)
        k == CloseBracket(s, j + 1)
    IN  IF s[i] = "-" /\ j <= Len(s) /\ s[j] = "[" /\ k # 0
        THEN ContentTail(s, k + 1, SubSeq(s, j + 1, k - 1))
        ELSE NoMatch

numbered_pattern == "numbered"
bullet_patterns == <<"bullet", "dash", "checkbox">>

MatchAt(pattern, s, i) ==
    CASE pattern = "numbered" -> NumberedAt(s, i)
      [] pattern = "bullet"   -> MarkAt(s, i, {BULLET, MIDDOT})
      [] pattern = "dash"     -> MarkAt(s, i, {"-", "*"})
      [] pattern = "checkbox" -> CheckboxAt(s, i)

\* ^ under re.MULTILINE
IsLineStart(s, i) == i = 1 \/ s[i - 1] = NL

\* the non-overlapping matches, left to right
RECURSIVE FindAllFrom(_, _, _)
FindAllFrom(pattern, s, i) ==
    IF i > Len(s) THEN <<>>
    ELSE LET m == IF IsLineStart(s, i) THEN MatchAt(pattern, s, i) ELSE NoMatch
         IN  IF m.ok THEN <<m>> \o FindAllFrom(pattern, s, m.next)
             ELSE FindAllFrom(pattern, s, i + 1)

FindAll(pattern, s) == FindAllFrom(pattern, s, 1)

Contents(matches) == [k \in DOMAIN matches |-> matches[k].content]
States(matches) == [k \in DOMAIN matches |-> matches[k].state]

(***************************************************************************)
(* parse_text, one definition per detector, each falling through to the    *)
(* next one                                                                *)
(***************************************************************************)
Returned(b, list) == [branch |-> b, sep |-> "", tasks |-> list, raised |-> FALSE]
Raised(b) == [branch |-> b, sep |-> "", tasks |-> <<>>, raised |-> TRUE]
NotParsed == [branch |-> "none", sep |-> "", tasks |-> <<>>, raised |-> FALSE]

\* re.search(sep, line) and re.split(sep, line) for sep = \s+<c>\s+ :
\* the index after a match that starts at i, or 0
SepMatchAt(line, i, c) ==
    LET j == SkipSpace(line, i)
        k == SkipSpace(line, j + 1)
    IN  IF j > i /\ j <= Len(line) /\ line[j] = c /\ k > j + 1 THEN k ELSE 0

SepSearch(line, c) == \E i \in DOMAIN line : SepMatchAt(line, i, c) # 0

\* p: where the current piece starts, i: where the search stands
RECURSIVE SepSplitFrom(_, _, _, _)
SepSplitFrom(line, c, p, i) ==
    IF i > Len(line) THEN <<SubSeq(line, p, Len(line))>>
    ELSE LET k == SepMatchAt(line, i, c)
         IN  IF k # 0 THEN <<SubSeq(line, p, i - 1)>> \o SepSplitFrom(line, c, k, k)
             ELSE SepSplitFrom(line, c, p, i + 1)

SepSplit(line, c) == SepSplitFrom(line, c, 1, 1)

\* (mutant) the separators in another order
separators_PlusFirst == <<"+", CYR_I, "|">>

\* separators = [r'\s+\|\s+', r'\s+<U+0438>\s+', r'\s+\+\s+']
separators == <<"|", CYR_I, "+">>

\* for sep in separators: if re.search(sep, line): return [...]
RECURSIVE TrySeparators(_, _, _)
TrySeparators(lines, line, n) ==
    IF n > Len(separators) THEN Returned("lines", lines)
    ELSE IF SepSearch(line, separators[n])
         THEN [Returned("inline", StripNonEmpty(SepSplit(line, separators[n])))
                   EXCEPT !.sep = separators[n]]
         ELSE TrySeparators(lines, line, n + 1)

\* (mutant) an empty list of lines is taken for a single line
IsSingleLine_AtMostOne(lines) == Len(lines) <= 1

\* (mutant) the separators are tried on the first line of any list of lines
IsSingleLine_AtLeastOne(lines) == Len(lines) >= 1

\* if len(lines) == 1
IsSingleLine(lines) == Len(lines) = 1

\* lines 70-82: split by lines, then the single-line separators
FromLines(text) ==
    LET lines == StripNonEmpty(Split(text, NL))
    IN  IF IsSingleLine(lines)
        THEN IF lines = <<>> THEN Raised("lines")   \* lines[0]: IndexError
             ELSE TrySeparators(lines, lines[1], 1)
        ELSE Returned("lines", lines)

\* lines 66-68
FromSemicolon_NeedsTwo(text) ==
    IF ";" \in Range(text) /\ Len(StripNonEmpty(Split(text, ";"))) > 1
    THEN Returned("semicolon", StripNonEmpty(Split(text, ";")))
    ELSE FromLines(text)

FromSemicolon(text) ==
    IF ";" \in Range(text) THEN Returned("semicolon", StripNonEmpty(Split(text, ";")))
    ELSE FromLines(text)

OpenBrackets == {"(", "[", "{"}
CloseBrackets == {")", "]", "}"}

\* (mutant) the depth is not looked at
IsSplitPoint_AnyDepth(char, depth) == char = ","

\* elif char == ',' and depth == 0
IsSplitPoint(char, depth) == char = "," /\ depth = 0

\* lines 44-60: the scan; its value is parts
RECURSIVE CommaScan(_, _, _, _, _)
CommaScan(text, i, parts, current, depth) ==
    IF i > Len(text)
    THEN IF Strip(current) # <<>> THEN Append(parts, Strip(current)) ELSE parts
    ELSE LET char == text[i]
         IN  IF char \in OpenBrackets
             THEN CommaScan(text, i + 1, parts, Append(current, char), depth + 1)
             ELSE IF char \in CloseBrackets
             THEN CommaScan(text, i + 1, parts, Append(current, char), depth - 1)
             ELSE IF IsSplitPoint(char, depth)
             THEN CommaScan(text, i + 1, Append(parts, Strip(current)), <<>>, depth)
             ELSE CommaScan(text, i + 1, parts, Append(current, char), depth)

CommaParts(text) == CommaScan(text, 1, <<>>, <<>>, 0)

\* if len(parts) > 1
CommaSucceeds(parts) == Len(parts) > 1

\* (mutant) the empty parts are not filtered out
CommaResult_Unfiltered(parts) == parts

\* [task for task in parts if task]
CommaResult(parts) == SelectSeq(parts, LAMBDA task : task # <<>>)

\* (mutant) the semicolon check comes before the comma check
FromComma_SemicolonFirst(text) ==
    IF ";" \in Range(text) THEN Returned("semicolon", StripNonEmpty(Split(text, ";")))
    ELSE IF "," \in Range(text) /\ CommaSucceeds(CommaParts(text))
    THEN Returned("comma", CommaResult(CommaParts(text)))
    ELSE FromLines(text)

\* lines 42-64
FromComma(text) ==
    IF "," \in Range(text) /\ CommaSucceeds(CommaParts(text))
    THEN Returned("comma", CommaResult(CommaParts(text)))
    ELSE FromSemicolon(text)

\* the list returned for the matches of bullet_patterns[n]
BulletResult(n, bullet_matches) ==
    IF n = 3 THEN StripNonEmpty(States(bullet_matches))     \* for task, _ in ...
    ELSE StripNonEmpty(Contents(bullet_matches))

\* lines 33-39: for pattern in bullet_patterns
RECURSIVE FromBullets(_, _)
FromBullets(text, n) ==
    IF n > Len(bullet_patterns) THEN FromComma(text)
    ELSE LET bullet_matches == FindAll(bullet_patterns[n], text)
         IN  IF bullet_matches # <<>>
             THEN Returned(bullet_patterns[n], BulletResult(n, bullet_matches))
             ELSE FromBullets(text, n + 1)

\* lines 21-24
FromNumbered(text) ==
    LET numbered_matches == FindAll(numbered_pattern, text)
    IN  IF numbered_matches # <<>>
        THEN Returned("numbered", StripNonEmpty(Contents(numbered_matches)))
        ELSE FromBullets(text, 1)

parse_text(raw_text) == FromNumbered(Strip(raw_text))

(***************************************************************************)
(* generate_title                                                          *)
(***************************************************************************)
FallbackTitle ==
    <<"U+041C", "U+043E", "U+0439", " ", "U+0441", "U+043F", "U+0438", "U+0441",
      "U+043E", "U+043A">>
ListPrefix == <<"U+0421", "U+043F", "U+0438", "U+0441", "U+043E", "U+043A", ":", " ">>
Ellipsis == <<".", ".", ".">>
CountPrefix ==
    <<"U+0421", "U+043F", "U+0438", "U+0441", "U+043E", "U+043A", " ", "U+0438",
      "U+0437", " ">>
CountSuffix ==
    <<" ", "U+043F", "U+0443", "U+043D", "U+043A", "U+0442", "U+043E", "U+0432">>

DigitChar == <<"0", "1", "2", "3", "4", "5", "6", "7", "8", "9">>

\* str(n) for n >= 0
RECURSIVE Decimal(_)
Decimal(n) ==
    IF n < 10 THEN <<DigitChar[n + 1]>>
    ELSE Decimal(n \div 10) \o <<DigitChar[(n % 10) + 1]>>

\* (mutant) every task is joined, not the first two
FirstTwo_All(list) == list

\* tasks[:2]
FirstTwo(list) == SubSeq(list, 1, IF Len(list) < 2 THEN Len(list) ELSE 2)

generate_title(list) ==
    IF list = <<>> THEN FallbackTitle
    ELSE IF Len(list) = 1 THEN list[1]
    ELSE IF Len(list) <= 3 THEN ListPrefix \o Join(FirstTwo(list), <<",", " ">>) \o Ellipsis
    ELSE CountPrefix \o Decimal(Len(list)) \o CountSuffix

(***************************************************************************)
(* The inputs: every text of at most MaxLen characters over one of the     *)
(* alphabets, typed one character at a time, and the example texts; every  *)
(* list of at most MaxTasks task texts.                                    *)
(***************************************************************************)
MaxLen == 5
MaxTasks == 10

Alphabets ==
    { {"1", ".", NL, " ", "a"},
      {"1", ".", NL, ",", "a"},
      {"-", "[", "]", NL, "a"},
      {BULLET, "-", NL, " ", "a"},
      {MIDDOT, "*", NL, ",", "a"},
      {",", "(", ")", " ", "a"},
      {",", ";", NL, "(", "a"},
      {",", "{", "]", ";", "a"},
      {"|", "+", CYR_I, " ", "a"},
      {"|", ";", NL, " ", "a"} }

Chars == UNION Alphabets

Examples ==
    { <<"-", " ", "[", "x", "]", " ", "B", "u", "y", " ", "m", "i", "l", "k", NL,
        "-", " ", "[", " ", "]", " ", "B", "u", "y", " ", "b", "r", "e", "a", "d">>,
      <<"C", "a", "l", "l", " ", "(", "J", "o", "h", "n", ",", " ", "J", "a", "n",
        "e", ")", ",", " ", "B", "u", "y", " ", "m", "i", "l", "k">>,
      <<"1", ".", " ", "A", NL, "2", ".", " ", "B", NL, "3", ".", " ", "C">>,
      <<"M", "i", "l", "k", " ", "|", " ", "B", "r", "e", "a", "d", " ", "|", " ",
        "C", "h", "e", "e", "s", "e">>,
      <<"B", "u", "y", " ", "m", "i", "l", "k", ",", " ", "p", "l", "e", "a", "s",
        "e">>,
      <<"M", "i", "l", "k", ",", " ", "B", "r", "e", "a", "d", ",", " ", "C", "h",
        "e", "e", "s", "e">>,
      <<BULLET, " ", "M", "i", "l", "k", NL, BULLET, " ", "B", "r", "e", "a", "d">>,
      <<"a", " ", "|", " ", "b", " ", "+", " ", "c">>,
      <<"a", " ", "+", " ", "b", " ", CYR_I, " ", "c">>,
      <<"a", " ", "|", " ", "b", NL, "c", " ", "+", " ", "d">>,
      <<"1", ".", " ", "a", NL, "2", ".", NL, "b">>,
      <<"a", ";", " ", "b", " ", "|", " ", "c">>,
      <<"1", ".", " ", "a", ",", "b", ";", "c", " ", "|", " ", "d">>,
      <<BULLET, " ", "a", NL, BULLET, NL, "-", " ", "b">> }

TaskTexts == { <<"a">>, <<"b", " ", "c">> }

NoCall == [op |-> "none"]
NoEvent == [kind |-> "none"]

\* empty tables, nothing sent, no handler running
DbInit ==
    /\ allowed_users = {}
    /\ whitelist_call = NoCall
    /\ business_connections = {}
    /\ pending_messages = {}
    /\ checklists = {}
    /\ task_rows = {}
    /\ sent_checklists = {}
    /\ awaiting = {}
    /\ next_message_id = 1
    /\ updates = 0
    /\ last_event = NoEvent

Init ==
    /\ msg_text = <<>>
    /\ pc \in {"input", "title_input"}
    /\ parsed = NotParsed
    /\ rejoined = <<>>
    /\ reparsed = NotParsed
    /\ tasks = <<>>
    /\ title = <<>>
    /\ DbInit

\* one more character of the incoming text
TypeChar(c) ==
    /\ pc = "input"
    /\ Len(msg_text) < MaxLen
    /\ \E A \in Alphabets : Range(msg_text) \cup {c} \subseteq A
    /\ msg_text' = Append(msg_text, c)
    /\ UNCHANGED <<pc, parsed, rejoined, reparsed, tasks, title>>
    /\ UNCHANGED db_vars

\* a whole example text arrives
LoadExample(e) ==
    /\ pc = "input"
    /\ msg_text = <<>>
    /\ msg_text' = e
    /\ UNCHANGED <<pc, parsed, rejoined, reparsed, tasks, title>>
    /\ UNCHANGED db_vars

\* tasks = TextParser.parse_text(text)
ParseText ==
    /\ pc = "input"
    /\ parsed' = parse_text(msg_text)
    /\ pc' = "parsed"
    /\ UNCHANGED <<msg_text, rejoined, reparsed, tasks, title>>
    /\ UNCHANGED db_vars

\* TextParser.parse_text("\n".join(tasks))
ParseRejoined ==
    /\ pc = "parsed"
    /\ ~parsed.raised
    /\ rejoined' = Join(parsed.tasks, <<NL>>)
    /\ reparsed' = parse_text(Join(parsed.tasks, <<NL>>))
    /\ pc' = "reparsed"
    /\ UNCHANGED <<msg_text, parsed, tasks, title>>
    /\ UNCHANGED db_vars

\* one more task of the list handed to generate_title
AddTask(t) ==
    /\ pc = "title_input"
    /\ Len(tasks) < MaxTasks
    /\ tasks' = Append(tasks, t)
    /\ UNCHANGED <<msg_text, pc, parsed, rejoined, reparsed, title>>
    /\ UNCHANGED db_vars

\* title = TextParser.generate_title(tasks)
GenerateTitle ==
    /\ pc = "title_input"
    /\ title' = generate_title(tasks)
    /\ pc' = "titled"
    /\ UNCHANGED <<msg_text, parsed, rejoined, reparsed, tasks>>
    /\ UNCHANGED db_vars

Next ==
    \/ \E c \in Chars : TypeChar(c)
    \/ \E e \in Examples : LoadExample(e)
    \/ ParseText
    \/ ParseRejoined
    \/ \E t \in TaskTexts : AddTask(t)
    \/ GenerateTitle

Spec == Init /\ [][Next]_vars

(***************************************************************************)
(* Helpers of the properties                                               *)
(***************************************************************************)
Min(S) == CHOOSE x \in S : \A y \in S : x <= y
Max(S) == CHOOSE x \in S : \A y \in S : x >= y

Stripped == Strip(msg_text)

\* e occurs in s at index i
OccursAt(e, s, i) ==
    i + Len(e) - 1 <= Len(s) /\ SubSeq(s, i, i + Len(e) - 1) = e

\* the elements of list occur in s from index i on, one after the other,
\* without overlap (each is looked for at its earliest place)
RECURSIVE InOrderFrom(_, _, _)
InOrderFrom(list, s, i) ==
    IF list = <<>> THEN TRUE
    ELSE LET at == {k \in i..Len(s) : OccursAt(Head(list), s, k)}
         IN  at # {} /\ InOrderFrom(Tail(list), s, Min(at) + Len(Head(list)))

Normalized(list, s) ==
    /\ \A k \in DOMAIN list :
          /\ list[k] # <<>>
          /\ ~IsSpace(list[k][1])
          /\ ~IsSpace(list[k][Len(list[k])])
    /\ InOrderFrom(list, s, 1)

\* the nesting depth in front of index i: brackets opened minus closed
DepthBefore(s, i) ==
    Cardinality({k \in 1..(i - 1) : s[k] \in OpenBrackets})
        - Cardinality({k \in 1..(i - 1) : s[k] \in CloseBrackets})

\* the commas at depth 0
SplitPoints(s) == {i \in DOMAIN s : s[i] = "," /\ DepthBefore(s, i) = 0}

\* the pieces of s between the indices of P, from index i on
RECURSIVE PiecesFrom(_, _, _)
PiecesFrom(s, P, i) ==
    LET later == {k \in P : k >= i}
    IN  IF later = {} THEN <<SubSeq(s, i, Len(s))>>
        ELSE <<SubSeq(s, i, Min(later) - 1)>> \o PiecesFrom(s, P, Min(later) + 1)

(***************************************************************************)
(* C1: every element of the list parse_text returns is non-empty, starts   *)
(* and ends with a character that is no whitespace, and the elements occur *)
(* in the input in the order of the list.                                  *)
(***************************************************************************)
C1_Normalized ==
    /\ pc \in {"parsed", "reparsed"} => Normalized(parsed.tasks, msg_text)
    /\ pc = "reparsed" => Normalized(reparsed.tasks, rejoined)

\* the comma branch returned two or more tasks after trimming or dropping
\* something
C1_Witness ==
    /\ pc = "parsed"
    /\ parsed.branch = "comma"
    /\ Len(parsed.tasks) >= 2
    /\ Len(Join(parsed.tasks, <<",">>)) < Len(msg_text)

(***************************************************************************)
(* C2: for a text whose lines all have the form "- [<state>] <content>",   *)
(* parse_text returns the <content> of each line, in order.                *)
(***************************************************************************)
CheckboxLines(s) ==
    LET ls == Split(s, NL)
    IN  IF \A k \in DOMAIN ls : ls[k] # <<>> /\ CheckboxAt(ls[k], 1).ok
        THEN [k \in DOMAIN ls |-> Strip(CheckboxAt(ls[k], 1).content)]
        ELSE <<>>

C2_CheckboxContent ==
    (pc = "parsed" /\ CheckboxLines(Stripped) # <<>>)
        => parsed.tasks = CheckboxLines(Stripped)

(***************************************************************************)
(* C3: the comma branch never returns a list of fewer than two elements.   *)
(***************************************************************************)
C3_CommaAtLeastTwo ==
    (pc = "parsed" /\ parsed.branch = "comma") => Len(parsed.tasks) >= 2

(***************************************************************************)
(* C4: in the comma branch a comma is a split point exactly when the depth *)
(* (brackets opened minus brackets closed so far, possibly negative) is 0  *)
(* at that comma: the result is the trimmed non-empty pieces between the   *)
(* depth-0 commas, and a comma at another depth stays in its piece.        *)
(***************************************************************************)
C4_DepthZeroCommas ==
    (pc = "parsed" /\ parsed.branch = "comma")
        => parsed.tasks
             = StripNonEmpty(PiecesFrom(Stripped, SplitPoints(Stripped), 1))

\* a comma below depth 0 or above it stayed inside a returned task
C4_Witness ==
    /\ pc = "parsed"
    /\ parsed.branch = "comma"
    /\ \E i \in DOMAIN msg_text :
          msg_text[i] = "," /\ DepthBefore(msg_text, i) # 0
    /\ \E k \in DOMAIN parsed.tasks : "," \in Range(parsed.tasks[k])

(***************************************************************************)
(* C5: the detectors are consulted in the order numbered, bulleted, comma, *)
(* semicolon, line / inline separator; the first that succeeds decides the *)
(* result, and the returned tasks can be read off the text with no         *)
(* boundary between two of them made of later detectors' markers (and      *)
(* whitespace) only.                                                       *)
(***************************************************************************)
\* some line starts with digits and "." and something follows the "."
NumberedApplies(s) ==
    \E i \in DOMAIN s :
        /\ IsLineStart(s, i)
        /\ \E d \in (i + 1)..(Len(s) - 1) :
              s[d] = "." /\ \A k \in i..(d - 1) : IsDigit(s[k])

\* some line starts with a bullet mark and something follows the mark
BulletApplies(s) ==
    \E i \in 1..(Len(s) - 1) :
        IsLineStart(s, i) /\ s[i] \in {BULLET, MIDDOT, "-", "*"}

\* the split at the depth-0 commas has more than one part
CommaApplies(s) ==
    LET P == SplitPoints(s)
    IN  P # {} /\ (Cardinality(P) >= 2 \/ Max(P) < Len(s))

FirstDetector(s) ==
    IF NumberedApplies(s) THEN "numbered"
    ELSE IF BulletApplies(s) THEN "bulleted"
    ELSE IF CommaApplies(s) THEN "comma"
    ELSE IF ";" \in Range(s) THEN "semicolon"
    ELSE "fallback"

DetectorOf(b) ==
    CASE b = "numbered" -> "numbered"
      [] b \in {"bullet", "dash", "checkbox"} -> "bulleted"
      [] b = "comma" -> "comma"
      [] b = "semicolon" -> "semicolon"
      [] b \in {"lines", "inline"} -> "fallback"

InlineMarks == {"|", CYR_I, "+"}

\* the markers of the detectors that come after the one that decided
LaterMarkers(r) ==
    CASE DetectorOf(r.branch) \in {"numbered", "bulleted"} -> {",", ";"} \cup InlineMarks
      [] r.branch = "comma" -> {";", NL} \cup InlineMarks
      [] r.branch = "semicolon" -> {NL} \cup InlineMarks
      [] r.branch = "lines" -> InlineMarks
      [] r.branch = "inline" ->
            IF r.sep = "|" THEN {CYR_I, "+"} ELSE IF r.sep = CYR_I THEN {"+"} ELSE {}

\* a boundary between two tasks that holds a later marker holds something
\* else than later markers and whitespace too
BoundaryOk(gap, later) ==
    Range(gap) \cap later # {} => ~(Range(gap) \subseteq (Whitespace \cup later))

\* the elements of list can be read off s in order, without overlap, from
\* index e on, with every boundary between two of them BoundaryOk; first:
\* list[1] is the first task, which has no boundary in front of it
RECURSIVE PlacedFrom(_, _, _, _, _)
PlacedFrom(list, s, e, first, later) ==
    IF list = <<>> THEN TRUE
    ELSE \E k \in e..Len(s) :
            /\ OccursAt(list[1], s, k)
            /\ first \/ BoundaryOk(SubSeq(s, e, k - 1), later)
            /\ PlacedFrom(Tail(list), s, k + Len(list[1]), FALSE, later)

NoLaterSplit(r, s) == PlacedFrom(r.tasks, s, 1, TRUE, LaterMarkers(r))

C5_FirstDetectorDecides ==
    pc = "parsed" =>
        /\ DetectorOf(parsed.branch) = FirstDetector(Stripped)
        /\ NoLaterSplit(parsed, msg_text)

\* a numbered line holding a comma, a semicolon and a bar is one task
C5_Witness ==
    /\ pc = "parsed"
    /\ parsed.branch = "numbered"
    /\ {",", ";", "|"} \subseteq Range(msg_text)
    /\ Len(parsed.tasks) = 1
    /\ {",", ";", "|"} \subseteq Range(parsed.tasks[1])

(***************************************************************************)
(* C6: when some line of the stripped text is digits, ".", content, the    *)
(* result is one task per such line: the trimmed content of that line.     *)
(***************************************************************************)
\* the trimmed content after the "<digits>." of line l, <<>> when l has none
NumberedLineContent(l) ==
    LET d == SkipDigits(l, 1)
    IN  IF d > 1 /\ d <= Len(l) /\ l[d] = "."
        THEN Strip(SubSeq(l, d + 1, Len(l)))
        ELSE <<>>

NumberedLineContents(s) ==
    LET ls == Split(s, NL)
    IN  SelectSeq([k \in DOMAIN ls |-> NumberedLineContent(ls[k])],
                  LAMBDA c : c # <<>>)

C6_OneTaskPerNumberedLine ==
    (pc = "parsed" /\ NumberedLineContents(Stripped) # <<>>)
        => parsed.tasks = NumberedLineContents(Stripped)

(***************************************************************************)
(* C7: parsing the tasks joined by newlines returns the same tasks, by the *)
(* line-separated fallback.                                                *)
(***************************************************************************)
C7_Idempotent ==
    pc = "reparsed" =>
        reparsed.tasks = parsed.tasks /\ reparsed.branch = "lines"

\* a task that would itself be read as list syntax
StartsWithMarker(e) ==
    \/ (LET d == SkipDigits(e, 1) IN d > 1 /\ d <= Len(e) /\ e[d] = ".")
    \/ e[1] \in {BULLET, MIDDOT, "-", "*"}

MarkerFree(list) ==
    /\ \A k \in DOMAIN list :
          /\ ~StartsWithMarker(list[k])
          /\ Range(list[k]) \cap {",", ";", NL} = {}
    /\ Len(list) = 1 =>
          \A n \in DOMAIN separators : ~SepSearch(list[1], separators[n])

\* C7 as amended: the same, for a list none of whose tasks starts with a
\* numbered or bullet marker or holds a comma, a semicolon or a newline, and
\* whose only task, when it has one task, holds no inline separator
C7_IdempotentMarkerFree ==
    (pc = "reparsed" /\ MarkerFree(parsed.tasks)) =>
        reparsed.tasks = parsed.tasks /\ reparsed.branch = "lines"

\* a list of two or more such tasks that came from another detector
C7_Witness ==
    /\ pc = "reparsed"
    /\ MarkerFree(parsed.tasks)
    /\ Len(parsed.tasks) >= 2
    /\ parsed.branch \in {"numbered", "comma", "inline"}

(***************************************************************************)
(* C8: generate_title gives the fallback title for no task, the task for   *)
(* one task, the list prefix, the first two tasks joined by ", " and an    *)
(* ellipsis for two or three tasks (so the third task changes nothing),    *)
(* and for four or more tasks a title made of the count alone.             *)
(***************************************************************************)
\* the decimal digits of n, for n < 100
CountText(n) ==
    IF n < 10 THEN <<DigitChar[n + 1]>>
    ELSE <<DigitChar[(n \div 10) + 1], DigitChar[(n % 10) + 1]>>

C8_TitleByCount ==
    pc = "titled" =>
        /\ tasks = <<>> => title = FallbackTitle
        /\ Len(tasks) = 1 => title = tasks[1]
        /\ Len(tasks) \in {2, 3} =>
              /\ title = ListPrefix \o tasks[1] \o <<",", " ">> \o tasks[2] \o Ellipsis
              /\ title = generate_title(<<tasks[1], tasks[2]>>)
        /\ Len(tasks) >= 4 =>
              title = CountPrefix \o CountText(Len(tasks)) \o CountSuffix

\* three tasks, the third unlike the first two
C8_Witness ==
    /\ pc = "titled"
    /\ Len(tasks) = 3
    /\ tasks[3] \notin {tasks[1], tasks[2]}

(***************************************************************************)
(* C9: parse_text raises nothing and returns a list, whatever the text.    *)
(***************************************************************************)
IsSequence(x) == DOMAIN x = 1..Len(x)

ReturnedList(r) ==
    /\ ~r.raised
    /\ r.branch # "none"
    /\ IsSequence(r.tasks)
    /\ \A k \in DOMAIN r.tasks : IsSequence(r.tasks[k])

C9_NoException ==
    /\ pc \in {"parsed", "reparsed"} => ReturnedList(parsed)
    /\ pc = "reparsed" => ReturnedList(reparsed)

\* a text of whitespace alone was parsed to the empty list
C9_Witness ==
    /\ pc = "parsed"
    /\ msg_text # <<>>
    /\ Stripped = <<>>
    /\ ReturnedList(parsed)
    /\ parsed.tasks = <<>>

(***************************************************************************)
(* C10: when the text comes down to the line split, several lines are      *)
(* returned as they are; a single line is split on "|" between whitespace  *)
(* if that occurs, else on the word U+0438 between whitespace, else on "+" *)
(* between whitespace, and on that separator alone; with none of them the  *)
(* line is the only task.                                                  *)
(***************************************************************************)
\* c stands in line between two whitespace characters
SepOccurrences(line, c) ==
    {j \in 2..(Len(line) - 1) :
        line[j] = c /\ IsSpace(line[j - 1]) /\ IsSpace(line[j + 1])}

FirstSeparator(line) ==
    IF SepOccurrences(line, "|") # {} THEN "|"
    ELSE IF SepOccurrences(line, CYR_I) # {} THEN CYR_I
    ELSE IF SepOccurrences(line, "+") # {} THEN "+"
    ELSE ""

RECURSIVE Concat(_)
Concat(list) == IF list = <<>> THEN <<>> ELSE Head(list) \o Concat(Tail(list))

Without(s, D) == SelectSeq(s, LAMBDA ch : ch \notin D)

SplitOnAlone(list, line, c) ==
    /\ \A k \in DOMAIN list : SepOccurrences(list[k], c) = {}
    /\ Without(Concat(list), Whitespace \cup {c}) = Without(line, Whitespace \cup {c})
    /\ Len(list) <= Cardinality(SepOccurrences(line, c)) + 1

C10_InlineFallback ==
    (pc = "parsed" /\ parsed.branch \in {"lines", "inline"}) =>
        LET lines == StripNonEmpty(Split(Stripped, NL))
        IN  IF Len(lines) # 1
            THEN parsed.branch = "lines" /\ parsed.tasks = lines
            ELSE IF FirstSeparator(lines[1]) = ""
            THEN parsed.branch = "lines" /\ parsed.tasks = lines
            ELSE /\ parsed.branch = "inline"
                 /\ parsed.sep = FirstSeparator(lines[1])
                 /\ SplitOnAlone(parsed.tasks, lines[1], parsed.sep)

\* a line with a bar and a plus was split at the bar, the plus kept
C10_Witness ==
    /\ pc = "parsed"
    /\ parsed.branch = "inline"
    /\ parsed.sep = "|"
    /\ SepOccurrences(Stripped, "+") # {}
    /\ Len(parsed.tasks) = 2
    /\ \E k \in DOMAIN parsed.tasks : SepOccurrences(parsed.tasks[k], "+") # {}

(***************************************************************************)
(* C11: when the text holds a ";" and neither the numbered, nor the        *)
(* bulleted, nor the comma detector succeeded, the result is the non-empty *)
(* trimmed pieces between all the ";" of the text, those inside brackets   *)
(* too, and it is the semicolon split that decides, however few pieces     *)
(* there are: the lines and the inline separators are not looked at.       *)
(***************************************************************************)
NonEmptyTrimmed(list) ==
    SelectSeq([k \in DOMAIN list |-> Strip(list[k])], LAMBDA e : e # <<>>)

Semicolons(s) == {i \in DOMAIN s : s[i] = ";"}

C11_SemicolonSplit ==
    (pc = "parsed" /\ FirstDetector(Stripped) = "semicolon") =>
        /\ parsed.branch = "semicolon"
        /\ parsed.tasks = NonEmptyTrimmed(PiecesFrom(Stripped, Semicolons(Stripped), 1))

\* a text was split at a ";" that stands inside an open bracket
C11_Witness ==
    /\ pc = "parsed"
    /\ parsed.branch = "semicolon"
    /\ \E i \in Semicolons(Stripped) : DepthBefore(Stripped, i) > 0
    /\ Len(parsed.tasks) >= 2

(***************************************************************************)
(* C12: when no numbered line decides and some line starts with a bullet   *)
(* or a middle dot followed by content, the bullet sub-pattern decides the *)
(* result, and a line that starts with "-" or "*" gives nothing to it.     *)
(***************************************************************************)
BulletMarks == {BULLET, MIDDOT}
DashMarks == {"-", "*"}

\* the trimmed contents of the lines that start with a bullet mark
BulletLineContents(s) ==
    LET lines == Split(s, NL)
        marked == SelectSeq(lines, LAMBDA l : l # <<>> /\ l[1] \in BulletMarks)
    IN  NonEmptyTrimmed([k \in DOMAIN marked |-> Tail(marked[k])])

DashLines(s) ==
    {l \in Range(Split(s, NL)) : l # <<>> /\ l[1] \in DashMarks}

C12_BulletBeforeDash ==
    (/\ pc = "parsed"
     /\ parsed.branch # "numbered"
     /\ BulletLineContents(Stripped) # <<>>) =>
        /\ parsed.branch = "bullet"
        /\ \A l \in DashLines(Stripped) :
              Strip(l) \in Range(parsed.tasks) =>
                  Strip(l) \in Range(BulletLineContents(Stripped))

(***************************************************************************)
(* C19: the list parse_text returns is empty only for a text that is empty *)
(* or whitespace: a text with a character that is not whitespace gives at  *)
(* least one task.                                                         *)
(***************************************************************************)
C19_EmptyOnlyForBlank ==
    (pc = "parsed" /\ Stripped # <<>>) => parsed.tasks # <<>>

(***************************************************************************)
(* bot/services/user_whitelist_service.py                                  *)
(*                                                                         *)
(* A value that may be None is a sequence: <<>> is None, <<v>> is v.  A    *)
(* row of allowed_users is [username, telegram_user_id] (the columns id,   *)
(* added_by and created_at are read by nothing modelled here).             *)
(***************************************************************************)
None == <<>>
Some(v) == <<v>>

UpperCase ==
    <<"A", "B", "C", "D", "E", "F", "G", "H", "I", "J", "K", "L", "M", "N",
      "O", "P", "Q", "R", "S", "T", "U", "V", "W", "X", "Y", "Z">>
LowerCase ==
    <<"a", "b", "c", "d", "e", "f", "g", "h", "i", "j", "k", "l", "m", "n",
      "o", "p", "q", "r", "s", "t", "u", "v", "w", "x", "y", "z">>

\* str.lower() (ASCII letters)
Lower(s) ==
    [k \in DOMAIN s |->
        IF \E u \in DOMAIN UpperCase : UpperCase[u] = s[k]
        THEN LowerCase[CHOOSE u \in DOMAIN UpperCase : UpperCase[u] = s[k]]
        ELSE s[k]]

\* str.lstrip('@')
RECURSIVE LStripAt(_)
LStripAt(s) ==
    IF s # <<>> /\ s[1] = "@" THEN LStripAt(Tail(s)) ELSE s

\* str.isdigit() (ASCII digits)
IsDigitString(s) == s # <<>> /\ \A k \in DOMAIN s : IsDigit(s[k])

\* int() of a string of digits
RECURSIVE ToInt(_)
ToInt(s) ==
    IF s = <<>> THEN 0
    ELSE 10 * ToInt(SubSeq(s, 1, Len(s) - 1))
            + (CHOOSE d \in 0..9 : DigitChar[d + 1] = s[Len(s)])

\* (username, telegram_user_id) of an identifier
parse_identifier(identifier) ==
    LET stripped == LStripAt(Strip(identifier))
    IN  IF IsDigitString(stripped)
        THEN [username |-> None, telegram_user_id |-> Some(ToInt(stripped))]
        ELSE [username |-> Some(Lower(stripped)), telegram_user_id |-> None]

\* "if username:" -- neither None nor the empty string
HasUsername(username) == username # None /\ username[1] # <<>>

\* "if user_id:" -- neither None nor 0
HasUserId(user_id) == user_id # None /\ user_id[1] # 0

\* the rows add_user and remove_user look for: by username when there is
\* one, by telegram_user_id otherwise (telegram_user_id IS NULL for None)
ExistingUsers(rows, parsed_id) ==
    IF HasUsername(parsed_id.username)
    THEN {r \in rows : r.username = parsed_id.username}
    ELSE {r \in rows : r.telegram_user_id = parsed_id.telegram_user_id}

is_user_allowed(rows, username, user_id) ==
    /\ HasUsername(username) \/ HasUserId(user_id)
    /\ \E r \in rows :
          \/ HasUsername(username) /\ r.username = Some(Lower(username[1]))
          \/ HasUserId(user_id) /\ r.telegram_user_id = user_id

WhitelistPc == {"whitelist", "workflow"}

\* whitelist_service.add_user(identifier, added_by)
add_user(identifier) ==
    /\ pc \in WhitelistPc
    /\ LET parsed_id == parse_identifier(identifier)
           existing == ExistingUsers(allowed_users, parsed_id)
       IN  /\ allowed_users' =
                 IF existing # {} THEN allowed_users
                 ELSE allowed_users \cup {parsed_id}
           /\ whitelist_call' =
                 [op |-> "add_user", identifier |-> identifier,
                  result |-> (existing = {})]
    /\ last_event' = NoEvent
    /\ UNCHANGED <<pc, parser_vars, business_connections, pending_messages,
                   checklists, task_rows, sent_checklists, awaiting,
                   next_message_id, updates>>

\* whitelist_service.remove_user(identifier); .first() takes any of the rows
\* found
remove_user(identifier) ==
    /\ pc \in WhitelistPc
    /\ LET parsed_id == parse_identifier(identifier)
           existing == ExistingUsers(allowed_users, parsed_id)
       IN  /\ IF existing = {} THEN allowed_users' = allowed_users
              ELSE \E user \in existing : allowed_users' = allowed_users \ {user}
           /\ whitelist_call' =
                 [op |-> "remove_user", identifier |-> identifier,
                  result |-> (existing # {})]
    /\ last_event' = NoEvent
    /\ UNCHANGED <<pc, parser_vars, business_connections, pending_messages,
                   checklists, task_rows, sent_checklists, awaiting,
                   next_message_id, updates>>

\* whitelist_service.is_user_allowed(username, user_id)
IsUserAllowed(user) ==
    /\ pc = "whitelist"
    /\ whitelist_call' =
          [op |-> "is_user_allowed", user |-> user,
           result |-> is_user_allowed(allowed_users, user.username, user.id)]
    /\ UNCHANGED <<pc, parser_vars, allowed_users, business_connections,
                   pending_messages, checklists, task_rows, sent_checklists,
                   awaiting, next_message_id, updates, last_event>>

\* the identifiers given to the service: "@Bob", "bob ", "42", "0", "@"
Identifiers ==
    { <<"@", "B", "o", "b">>, <<"b", "o", "b", " ">>, <<"4", "2">>, <<"0">>,
      <<"@">> }

\* the Telegram users asked about
TelegramUsers ==
    { [username |-> Some(<<"B", "o", "b">>), id |-> Some(7)],
      [username |-> None, id |-> Some(42)],
      [username |-> None, id |-> Some(0)],
      [username |-> None, id |-> None] }

ParserIdle ==
    /\ msg_text = <<>>
    /\ parsed = NotParsed
    /\ rejoined = <<>>
    /\ reparsed = NotParsed
    /\ tasks = <<>>
    /\ title = <<>>

InitWhitelist == pc = "whitelist" /\ ParserIdle /\ DbInit

NextWhitelist ==
    \/ \E x \in Identifiers : add_user(x)
    \/ \E x \in Identifiers : remove_user(x)
    \/ \E u \in TelegramUsers : IsUserAllowed(u)

SpecWhitelist == InitWhitelist /\ [][NextWhitelist]_vars

(***************************************************************************)
(* C18: the whitelist behaves as a set of normalized identifiers (username *)
(* stripped, without its leading "@", lower-cased; or a numeric id, 0      *)
(* included): a successful add_user(x) makes is_user_allowed TRUE for the  *)
(* user x identifies, and it stays so until a remove_user succeeds; a      *)
(* successful remove_user(x) makes it FALSE for a user that only x         *)
(* matched; add_user of an identifier already there fails and leaves the   *)
(* whitelist as it is.                                                     *)
(***************************************************************************)
\* the user is the one the identifier names
Identifies(x, user) ==
    LET n == parse_identifier(x)
    IN  \/ n.telegram_user_id # None /\ user.id = n.telegram_user_id
        \/ /\ HasUsername(n.username)
           /\ user.username # None
           /\ Lower(user.username[1]) = n.username[1]

Allowed(rows, user) == is_user_allowed(rows, user.username, user.id)

C18_WhitelistIsASet ==
    [][\A user \in TelegramUsers :
          /\ \A x \in Identifiers :
                /\ (/\ whitelist_call' = [op |-> "add_user", identifier |-> x,
                                          result |-> TRUE]
                    /\ Identifies(x, user))
                      => Allowed(allowed_users', user)
                /\ (/\ whitelist_call' = [op |-> "remove_user", identifier |-> x,
                                          result |-> TRUE]
                    /\ Identifies(x, user)
                    /\ \A r \in allowed_users :
                          Allowed({r}, user) => r = parse_identifier(x))
                      => ~Allowed(allowed_users', user)
                /\ (/\ whitelist_call'.op = "add_user"
                    /\ whitelist_call'.identifier = x
                    /\ parse_identifier(x) \in allowed_users)
                      => /\ ~whitelist_call'.result
                         /\ allowed_users' = allowed_users
          /\ (Allowed(allowed_users, user) /\ whitelist_call'.op # "remove_user")
                => Allowed(allowed_users', user)]_vars

(***************************************************************************)
(* bot/services/business_connection_service.py                             *)
(*                                                                         *)
(* A row of business_connections is [connection_id, user_id, is_active].   *)
(***************************************************************************)
ConnectionIds == {"bc1", "bc2", "bc3"}
UserIds == {7, 42}

Deactivated(rows) == {[r EXCEPT !.is_active = FALSE] : r \in rows}

\* the existing row gets the user and is_active = True; the other rows stay
Reactivated(rows, connection_id, user_id) ==
    {IF r.connection_id = connection_id
     THEN [r EXCEPT !.user_id = user_id, !.is_active = TRUE]
     ELSE r : r \in rows}

\* business_service.save_connection(connection_id, user_id)
save_connection(connection_id, user_id) ==
    /\ pc = "connections"
    /\ business_connections' =
          IF \E r \in business_connections : r.connection_id = connection_id
          THEN Reactivated(business_connections, connection_id, user_id)
          ELSE Deactivated(business_connections)
                  \cup {[connection_id |-> connection_id, user_id |-> user_id,
                         is_active |-> TRUE]}
    /\ UNCHANGED <<pc, parser_vars, allowed_users, whitelist_call,
                   pending_messages, checklists, task_rows, sent_checklists,
                   awaiting, next_message_id, updates, last_event>>

\* business_service.update_connection(connection_id, user_id); None is
\* returned, and nothing written, for an id that has no row
update_connection(connection_id, user_id) ==
    /\ pc = "connections"
    /\ business_connections' =
          Reactivated(business_connections, connection_id, user_id)
    /\ UNCHANGED <<pc, parser_vars, allowed_users, whitelist_call,
                   pending_messages, checklists, task_rows, sent_checklists,
                   awaiting, next_message_id, updates, last_event>>

\* business_service.deactivate_connection(connection_id); None deactivates
\* every active row
deactivate_connection(connection_id) ==
    /\ pc = "connections"
    /\ business_connections' =
          IF connection_id # None
          THEN {IF r.connection_id = connection_id[1]
                THEN [r EXCEPT !.is_active = FALSE]
                ELSE r : r \in business_connections}
          ELSE Deactivated(business_connections)
    /\ UNCHANGED <<pc, parser_vars, allowed_users, whitelist_call,
                   pending_messages, checklists, task_rows, sent_checklists,
                   awaiting, next_message_id, updates, last_event>>

InitConnections == pc = "connections" /\ ParserIdle /\ DbInit

NextConnections ==
    \/ \E c \in ConnectionIds, u \in UserIds : save_connection(c, u)
    \/ \E c \in ConnectionIds, u \in UserIds : update_connection(c, u)
    \/ \E c \in {None} \cup {Some(c) : c \in ConnectionIds} :
          deactivate_connection(c)

SpecConnections == InitConnections /\ [][NextConnections]_vars

(***************************************************************************)
(* C15: after any sequence of save_connection, update_connection and       *)
(* deactivate_connection calls, with whatever connection ids, at most one  *)
(* row of business_connections has is_active = True.                       *)
(***************************************************************************)
ActiveConnections == {r \in business_connections : r.is_active}

C15_AtMostOneActive ==
    pc = "connections" => Cardinality(ActiveConnections) <= 1

(***************************************************************************)
(* bot/handlers/callback_handler.py                                        *)
(*                                                                         *)
(* One chat.  A row of pending_messages is [message_id, text, user_id], a  *)
(* row of checklists [id, user_id, title, message_id, pending_id], a row   *)
(* of tasks [checklist_id, text, position]; pending_id is bookkeeping of   *)
(* the model (the message the checklist was made for), no column of the    *)
(* table.  Every update is handled in a task of its own: a handler runs    *)
(* without interruption up to "await send_checklist", where the others may *)
(* run, and goes on when the call returns or raises.                       *)
(***************************************************************************)
MEMO == "U+1F4DD"
WRITING_HAND == "U+270D"
VARIATION_SELECTOR == "U+FE0F"
THUMBS_UP == "U+1F44D"

trigger_emojis == << <<MEMO>>, <<WRITING_HAND, VARIATION_SELECTOR>>, <<WRITING_HAND>> >>

\* emoji in message.text
Contains(text, emoji) ==
    \E i \in 1..Len(text) :
        i + Len(emoji) - 1 <= Len(text)
            /\ SubSeq(text, i, i + Len(emoji) - 1) = emoji

\* message.reply_to_message and any(emoji in message.text for emoji in ...)
has_trigger(text, reply_to) ==
    reply_to # None /\ \E k \in DOMAIN trigger_emojis : Contains(text, trigger_emojis[k])

\* reaction.emoji in trigger_emojis, for some reaction of new_reaction
has_ok_reaction(new_reaction) ==
    \E k \in DOMAIN new_reaction, e \in DOMAIN trigger_emojis :
        new_reaction[k] = trigger_emojis[e]

\* the senders: Bob (@Bob, id 7) and a user without username (id 9)
Senders ==
    { [username |-> Some(<<"B", "o", "b">>), id |-> Some(7)],
      [username |-> None, id |-> Some(9)] }

\* the identifiers the owner adds and removes: "@Bob", "9"
OwnerIdentifiers == { <<"@", "B", "o", "b">>, <<"9">> }

\* "a,b" (two tasks) | "a" (one task) | a writing hand with its variation
\* selector (one task) | a memo, "a;b" (two tasks)
MessageTexts ==
    { <<"a", ",", "b">>, <<"a">>, <<WRITING_HAND, VARIATION_SELECTOR>>,
      <<MEMO, "a", ";", "b">> }

Reactions == { << <<MEMO>> >>, << <<THUMBS_UP>> >> }

\* TextParser.parse_text of each message text
ParsedTexts == [text \in MessageTexts |-> parse_text(text)]

\* if len(tasks) < 2
TooFewTasks_None(task_list) == Len(task_list) < 1

TooFewTasks(task_list) == Len(task_list) < 2

\* query(PendingMessage).filter(chat_id == ..., message_id == ...)
PendingFor(message_id) ==
    {p \in pending_messages : p.message_id = message_id}

\* checklist_manager.create_checklist(user_id, title, tasks): the rows of
\* the checklist (message_id 0) and of its tasks, both committed
NewChecklist(pending, task_list) ==
    [id |-> Cardinality(checklists) + 1,
     user_id |-> pending.user_id,
     title |-> generate_title(task_list),
     message_id |-> 0,
     pending_id |-> pending.message_id]

NewTasks(checklist_id, task_list) ==
    {[checklist_id |-> checklist_id, text |-> task_list[i], position |-> i - 1] :
        i \in DOMAIN task_list}

\* create_checklist_for_message, and the same steps of
\* handle_message_reaction, up to "await send_checklist"
StartChecklist(handler, pending) ==
    LET outcome == ParsedTexts[pending.text]
        checklist == NewChecklist(pending, outcome.tasks)
    IN  IF outcome.raised
        THEN UNCHANGED <<pending_messages, checklists, task_rows, awaiting>>
        ELSE IF TooFewTasks(outcome.tasks)
        THEN /\ pending_messages' = pending_messages \ {pending}
             /\ UNCHANGED <<checklists, task_rows, awaiting>>
        ELSE /\ checklists' = checklists \cup {checklist}
             /\ task_rows' = task_rows \cup NewTasks(checklist.id, outcome.tasks)
             /\ awaiting' = awaiting \cup
                   {[handler |-> handler, pending |-> pending,
                     checklist_id |-> checklist.id]}
             /\ UNCHANGED pending_messages

\* if not is_allowed: return
Ignored_Negated(sender) ==
    is_user_allowed(allowed_users, sender.username, sender.id)

Ignored(sender) ==
    ~is_user_allowed(allowed_users, sender.username, sender.id)

MaxUpdates == 3

\* handle_business_message(message), up to its return or its await
handle_business_message(sender, text, reply_to) ==
    /\ pc = "workflow"
    /\ updates < MaxUpdates
    /\ updates' = updates + 1
    /\ next_message_id' = next_message_id + 1
    /\ last_event' = [kind |-> "business_message", sender |-> sender,
                      trigger_for |->
                          IF has_trigger(text, reply_to) THEN reply_to ELSE None]
    /\ whitelist_call' =
          [op |-> "is_user_allowed", user |-> sender,
           result |-> is_user_allowed(allowed_users, sender.username, sender.id)]
    /\ IF Ignored(sender)
       THEN UNCHANGED <<pending_messages, checklists, task_rows, awaiting>>
       ELSE IF has_trigger(text, reply_to)
       THEN IF PendingFor(reply_to[1]) = {}
            THEN UNCHANGED <<pending_messages, checklists, task_rows, awaiting>>
            ELSE \E pending \in PendingFor(reply_to[1]) :
                    StartChecklist("business_message", pending)
       ELSE LET outcome == ParsedTexts[text]
            IN  /\ pending_messages' =
                      IF outcome.raised \/ TooFewTasks(outcome.tasks)
                      THEN pending_messages
                      ELSE pending_messages \cup
                              {[message_id |-> next_message_id, text |-> text,
                                user_id |-> sender.id[1]]}
                /\ UNCHANGED <<checklists, task_rows, awaiting>>
    /\ UNCHANGED <<pc, parser_vars, allowed_users, business_connections,
                   sent_checklists>>

\* handle_message_reaction(event), up to its return or its await
handle_message_reaction(message_id, new_reaction) ==
    /\ pc = "workflow"
    /\ updates < MaxUpdates
    /\ updates' = updates + 1
    /\ last_event' = [kind |-> "message_reaction", message_id |-> message_id,
                      new_reaction |-> new_reaction]
    /\ IF ~has_ok_reaction(new_reaction) \/ PendingFor(message_id) = {}
       THEN UNCHANGED <<pending_messages, checklists, task_rows, awaiting>>
       ELSE \E pending \in PendingFor(message_id) :
               StartChecklist("message_reaction", pending)
    /\ whitelist_call' = NoCall
    /\ UNCHANGED <<pc, parser_vars, allowed_users, business_connections, sent_checklists, next_message_id>>

\* send_checklist returns the message sent: the handler sets the message_id
\* of its checklist and deletes the pending message
SendChecklistReturns(h) ==
    /\ pc = "workflow"
    /\ h \in awaiting
    /\ LET outcome == ParsedTexts[h.pending.text]
       IN  sent_checklists' = sent_checklists \cup
              {[message_id |-> next_message_id,
                reply_to |-> h.pending.message_id,
                title |-> generate_title(outcome.tasks),
                tasks |-> outcome.tasks]}
    /\ next_message_id' = next_message_id + 1
    /\ checklists' =
          {IF c.id = h.checklist_id
           THEN [c EXCEPT !.message_id = next_message_id]
           ELSE c : c \in checklists}
    /\ pending_messages' = pending_messages \ {h.pending}
    /\ awaiting' = awaiting \ {h}
    /\ last_event' = [kind |-> "send_returned", handler |-> h, escaped |-> FALSE]
    /\ whitelist_call' = NoCall
    /\ UNCHANGED <<pc, parser_vars, allowed_users, business_connections, task_rows, updates>>

\* send_checklist raises: "except Exception" logs it and the handler ends
SendChecklistRaises(h) ==
    /\ pc = "workflow"
    /\ h \in awaiting
    /\ awaiting' = awaiting \ {h}
    /\ last_event' = [kind |-> "send_raised", handler |-> h, escaped |-> FALSE]
    /\ whitelist_call' = NoCall
    /\ UNCHANGED <<pc, parser_vars, allowed_users, business_connections, pending_messages, checklists,
                   task_rows, sent_checklists, next_message_id, updates>>

InitWorkflow == pc = "workflow" /\ ParserIdle /\ DbInit

NextWorkflow ==
    \/ \E x \in OwnerIdentifiers : add_user(x)
    \/ \E x \in OwnerIdentifiers : remove_user(x)
    \/ \E sender \in Senders, text \in MessageTexts,
          reply_to \in {None} \cup {Some(m) : m \in 1..(next_message_id - 1)} :
            handle_business_message(sender, text, reply_to)
    \/ \E m \in 1..(next_message_id - 1), r \in Reactions :
            handle_message_reaction(m, r)
    \/ \E h \in awaiting : SendChecklistReturns(h)
    \/ \E h \in awaiting : SendChecklistRaises(h)

SpecWorkflow == InitWorkflow /\ [][NextWorkflow]_vars

(***************************************************************************)
(* C13: a pending message is stored, a Checklist row is created and a      *)
(* checklist is sent only for a text that parse_text turns into at least   *)
(* two tasks; a pending message that gives fewer than two tasks when it is *)
(* triggered is deleted, and nothing is created or sent for it.            *)
(***************************************************************************)
TaskCount(text) == Len(parse_text(text).tasks)

TasksOfChecklist(c) == {t \in task_rows : t.checklist_id = c.id}

\* the step handles a trigger (reply or reaction) aimed at message_id
TriggeredOn(message_id) ==
    \/ /\ last_event'.kind = "business_message"
       /\ last_event'.trigger_for = Some(message_id)
       /\ whitelist_call'.result
    \/ /\ last_event'.kind = "message_reaction"
       /\ last_event'.message_id = message_id
       /\ \E k \in DOMAIN trigger_emojis :
             last_event'.new_reaction = <<trigger_emojis[k]>>

C13_AtLeastTwoTasks ==
    /\ [](pc = "workflow" =>
            /\ \A p \in pending_messages : TaskCount(p.text) >= 2
            /\ \A c \in checklists :
                  /\ Cardinality(TasksOfChecklist(c)) >= 2
                  /\ \A m \in sent_checklists :
                        m.message_id = c.message_id => Len(m.tasks) >= 2
            /\ \A m \in sent_checklists : Len(m.tasks) >= 2)
    /\ [][\A p \in pending_messages :
             (TaskCount(p.text) < 2 /\ TriggeredOn(p.message_id)) =>
                 /\ p \notin pending_messages'
                 /\ UNCHANGED <<checklists, task_rows, sent_checklists, awaiting>>]_vars

\* a checklist of two tasks was created and sent, and the message handled
\* last, of one task and from a sender on the whitelist, was not stored
C13_Witness ==
    /\ pc = "workflow"
    /\ \E c \in checklists, m \in sent_checklists :
          /\ c.message_id = m.message_id
          /\ Cardinality(TasksOfChecklist(c)) = 2
          /\ Len(m.tasks) = 2
    /\ last_event.kind = "business_message"
    /\ whitelist_call.result
    /\ last_event.trigger_for = None
    /\ PendingFor(next_message_id - 1) = {}

(***************************************************************************)
(* C14: whatever the interleaving of the triggers (replies with a trigger  *)
(* emoji, trigger reactions) aimed at one pending message, at most one     *)
(* Checklist row is created for it and at most one checklist is sent for   *)
(* it.                                                                     *)
(***************************************************************************)
C14_OneCreationPerPending ==
    pc = "workflow" =>
        \A m \in 1..next_message_id :
            /\ Cardinality({c \in checklists : c.pending_id = m}) <= 1
            /\ Cardinality({sent \in sent_checklists : sent.reply_to = m}) <= 1

(***************************************************************************)
(* C16: a business message whose sender is not on the whitelist (no row    *)
(* has his lower-cased username, none has his id) changes nothing: no      *)
(* pending message is stored or deleted, no checklist created or sent, be  *)
(* the message a list or a trigger reply.                                  *)
(***************************************************************************)
OnWhitelist(sender) ==
    \E r \in allowed_users :
        \/ sender.username # None /\ r.username = Some(Lower(sender.username[1]))
        \/ sender.id # None /\ r.telegram_user_id = sender.id

C16_UnlistedSenderChangesNothing ==
    [][(last_event'.kind = "business_message" /\ ~OnWhitelist(last_event'.sender))
          => UNCHANGED <<pending_messages, checklists, task_rows,
                         sent_checklists, awaiting>>]_vars

\* a sender off the whitelist has answered a stored message with a trigger
\* emoji, and the message is still stored
C16_Witness ==
    /\ pc = "workflow"
    /\ last_event.kind = "business_message"
    /\ ~OnWhitelist(last_event.sender)
    /\ last_event.trigger_for # None
    /\ PendingFor(last_event.trigger_for[1]) # {}
    /\ checklists = {}

(***************************************************************************)
(* C17: when send_checklist raises, no exception leaves the handler and    *)
(* the tables are as before the trigger: the pending message is still      *)
(* stored, and no Checklist row (with its message_id 0) and no Task row of *)
(* the failed attempt is left.                                             *)
(***************************************************************************)
C17_FailedSendLeavesNothing ==
    [][last_event'.kind = "send_raised" =>
          LET h == last_event'.handler
          IN  /\ ~last_event'.escaped
              /\ h.pending \in pending_messages => h.pending \in pending_messages'
              /\ \A c \in checklists' : c.id # h.checklist_id
              /\ \A t \in task_rows' : t.checklist_id # h.checklist_id]_vars

====
